---- MODULE Spec2Model ----
(***************************************************************************)
(* The render-fs command of nomad-pack (internal/cli/render_fs.go): the    *)
(* in-memory node tree (RootDir -> JobDir -> RenderFS), the handlers the   *)
(* FUSE serving layer calls on it, and the mount session of                *)
(* RenderFSCommand.Run (mount, serve until interrupted, deferred unmount). *)
(*                                                                         *)
(* Two specifications:                                                     *)
(*   Spec      the run of RenderFSCommand.Run, with the serve loop         *)
(*             dispatching requests to the nodes it was handed;            *)
(*   NodeSpec  the node handlers applied to an arbitrary node value.       *)
(* LiveSpec is Spec with the fairness of the sequential program.           *)
(*                                                                         *)
(* A Go string is a sequence of bytes; names are atomic strings.           *)
(* toml.Unmarshal, os.Open, io.ReadAll and fuse.Mount are external: each   *)
(* either fails or succeeds, and the document that was parsed is any value *)
(* of the declared type map[string]PackEntry.                              *)
(***************************************************************************)
EXTENDS Integers, Sequences, FiniteSets, TLC

\* ---------------------------------------------------------------- bounds
MaxContentLen == 2
MaxOffset == 3
MaxSize == 3

\* ------------------------------------------------------------ value sets
Bytes == {"A", "B"}
TreeContents == {<<>>, <<"A">>, <<"A", "B">>}
GroupNames == {"web", "db"}
FileNames == {"job.conf", "vars.hcl"}
LookupNames == GroupNames \cup FileNames \cup {"unknown"}

SeqsUpTo(S, n) == UNION {[1..k -> S] : k \in 0..n}

\* a Go map with string keys: a function whose domain is the set of keys
Maps(K, V) == UNION {[D -> V] : D \in SUBSET K}
Keys(m) == DOMAIN m
nilMap == [k \in {} |-> <<>>]

\* type PackEntry struct { files map[string]string }
PackEntry == [files : Maps(FileNames, TreeContents)]

\* c.parsedBuilds map[string]PackEntry
Trees == Maps(GroupNames, PackEntry)

\* type RenderFS struct { Name string; Content string }
RenderFS == [kind : {"RenderFS"}, Name : FileNames, Content : SeqsUpTo(Bytes, MaxContentLen)]

\* type RootDir struct { jobs map[string]PackEntry }
RootDir == [kind : {"RootDir"}, jobs : Trees]

\* type JobDir struct { job PackEntry }
JobDir == [kind : {"JobDir"}, job : PackEntry]

\* the nil fs.Node
nilNode == [kind |-> "nil"]

\* An os.FileMode is 32 bits: the type bits (os.ModeDir is bit 31, none set
\* for a regular file) and the 9 permission bits. It is kept as the set of
\* type flags that are set and the permission bits as a number.
FileMode(type, perm) == [type |-> type, perm |-> perm]
IsDir(mode) == "ModeDir" \in mode.type
IsRegular(mode) == mode.type = {}
Bit(n, k) == (n \div (2^k)) % 2 = 1

\* the positions of the permission bits in os.FileMode.Perm()
PermBit == [OwnerR |-> 8, OwnerW |-> 7, OwnerX |-> 6, GroupR |-> 5, GroupW |-> 4, GroupX |-> 3, OtherR |-> 2, OtherW |-> 1, OtherX |-> 0]
ReadBits == {PermBit.OwnerR, PermBit.GroupR, PermBit.OtherR}
WriteBits == {PermBit.OwnerW, PermBit.GroupW, PermBit.OtherW}
TraverseBits == {PermBit.OwnerX, PermBit.GroupX, PermBit.OtherX}

\* the zero fuse.Attr the serving layer hands to Attr (Mode and Size only)
ZeroAttr == [Mode |-> FileMode({}, 0), Size |-> 0]

\* ------------------------------------------------------- node handlers
\* every way a range over a Go map can enumerate a key set: each key once,
\* in an unspecified order
Orders(S) == {s \in [1..Cardinality(S) -> S] : \A i, j \in 1..Cardinality(S) : i # j => s[i] # s[j]}

\* func (r RenderFS) Attr: fills in nothing and returns nil
RenderFS_Attr(r, attr) == [attr |-> attr, err |-> "nil"]

\* func (r RenderFS) Read: resp.Data = []byte(r.Content), whatever req asks
RenderFS_Read(r, offset, size) == [Data |-> r.Content, err |-> "nil"]

RootDir_Lookup_AnyName(d, name) == [node |-> [kind |-> "JobDir", job |-> [files |-> nilMap]], err |-> "nil"]

\* func (d *RootDir) Lookup
RootDir_Lookup(d, name) == IF name \notin Keys(d.jobs) THEN [node |-> nilNode, err |-> "ENOENT"] ELSE [node |-> [kind |-> "JobDir", job |-> d.jobs[name]], err |-> "nil"]

RootDir_ReadDirAll_Twice(d) == {[rV |-> [i \in 1..Len(s) |-> [Name |-> s[i], Type |-> "DT_Dir"]] \o [i \in 1..Len(s) |-> [Name |-> s[i], Type |-> "DT_Dir"]], err |-> "nil"] : s \in Orders(Keys(d.jobs))}

\* func (d RootDir) ReadDirAll: one DT_Dir entry for each key of d.jobs
RootDir_ReadDirAll(d) == {[rV |-> [i \in 1..Len(s) |-> [Name |-> s[i], Type |-> "DT_Dir"]], err |-> "nil"] : s \in Orders(Keys(d.jobs))}

RootDir_Attr_0777(d, attr) == [attr |-> [attr EXCEPT !.Mode = FileMode({"ModeDir"}, \o777)], err |-> "nil"]

\* func (d RootDir) Attr: attr.Mode = os.ModeDir | 0o755
RootDir_Attr(d, attr) == [attr |-> [attr EXCEPT !.Mode = FileMode({"ModeDir"}, \o755)], err |-> "nil"]

\* func (d JobDir) Attr: attr.Mode = os.ModeDir | 0o755
JobDir_Attr(d, attr) == [attr |-> [attr EXCEPT !.Mode = FileMode({"ModeDir"}, \o755)], err |-> "nil"]

\* func (j *JobDir) ReadDirAll: one DT_File entry for each key of j.job.files
JobDir_ReadDirAll(j) == {[dirents |-> [i \in 1..Len(s) |-> [Name |-> s[i], Type |-> "DT_File"]], err |-> "nil"] : s \in Orders(Keys(j.job.files))}

\* func (r RootEntry) Root
Root(r) == [node |-> [kind |-> "RootDir", jobs |-> r.jobs], err |-> "nil"]

\* The method sets: only *RootDir declares Lookup, only RenderFS declares Read,
\* only the two directory types declare ReadDirAll; all three declare Attr.
HasLookup(n) == n.kind = "RootDir"
HasReadDirAll(n) == n.kind \in {"RootDir", "JobDir"}
HasRead(n) == n.kind = "RenderFS"

\* A lookup request on a node: the node's Lookup when it declares one; for a
\* node that declares none the serving layer has nothing to call and answers
\* ENOENT itself.
NodeLookup(n, name) == IF HasLookup(n) THEN RootDir_Lookup(n, name) ELSE [node |-> nilNode, err |-> "ENOENT"]

NodeReadDirAll(n) == IF n.kind = "RootDir" THEN {[dirents |-> x.rV, err |-> x.err] : x \in RootDir_ReadDirAll(n)} ELSE JobDir_ReadDirAll(n)

NodeAttr(n, attr) == CASE n.kind = "RootDir" -> RootDir_Attr(n, attr) [] n.kind = "JobDir" -> JobDir_Attr(n, attr) [] n.kind = "RenderFS" -> RenderFS_Attr(n, attr)

\* the request and the response of one filesystem operation, as records
NoReq == [op |-> "none", node |-> nilNode, name |-> "", offset |-> 0, size |-> 0]
NoResp == [op |-> "none", err |-> "nil", node |-> nilNode, dirents |-> <<>>, data |-> <<>>, attr |-> ZeroAttr]

\* ------------------------------------------------------------------ state
VARIABLES
  pc,            \* where RenderFSCommand.Run stands ("node" under NodeSpec)
  exitCode,      \* the int Run returned, read when pc = "done"
  err,           \* Run's local err: "nil" or the call that produced the error
  defers,        \* Run's stack of deferred calls, oldest first
  calls,         \* the calls Run has made so far with their outcome, the
                 \* return of fs.ServeContext ("serve returned") and the
                 \* interrupts received, in order
  mounted,       \* the OS has the mount point bound
  ctxCancelled,  \* the context of helper.WithInterrupt is done
  parsedBuilds,  \* c.parsedBuilds
  nodes,         \* the nodes the serving layer holds
  req,           \* the filesystem request handled last
  resp           \* its response

vars == <<pc, exitCode, err, defers, calls, mounted, ctxCancelled, parsedBuilds, nodes, req, resp>>
runVars == <<pc, exitCode, err, defers, calls, mounted, ctxCancelled, parsedBuilds>>

RootFile == "example.toml"

Call(fn, ok) == [fn |-> fn, ok |-> ok]
Made(fn) == {i \in 1..Len(calls) : calls[i].fn = fn}
Succeeded(fn) == {i \in 1..Len(calls) : calls[i] = Call(fn, TRUE)}
Failed(fn) == {i \in 1..Len(calls) : calls[i] = Call(fn, FALSE)}

Reverse(s) == [i \in 1..Len(s) |-> s[Len(s) + 1 - i]]
InSeq(x, s) == \E i \in 1..Len(s) : s[i] = x

DefersAfterMount_NoUnmount(d) == Append(d, "conn.Close")

\* defer conn.Close(); defer fuse.Unmount(mountpoint)
DefersAfterMount(d) == Append(Append(d, "conn.Close"), "fuse.Unmount")

ExitAfterServe_Always1(e) == 1

ExitAfterServe_Swapped(e) == IF e # "nil" THEN 0 ELSE 1

\* if err != nil { ...; return 1 }; return 0
ExitAfterServe(e) == IF e # "nil" THEN 1 ELSE 0

Init ==
  /\ pc = "init"
  /\ exitCode = 0
  /\ err = "nil"
  /\ defers = <<>>
  /\ calls = <<>>
  /\ mounted = FALSE
  /\ ctxCancelled = FALSE
  /\ parsedBuilds = nilMap
  /\ nodes = {}
  /\ req = NoReq
  /\ resp = NoResp

\* ------------------------------------------------------ RenderFSCommand.Run
\* A return statement sets the result and moves Run to "return", where the
\* deferred calls run (RunReturn).

\* c.Init(WithExactArgs(2, args), ...) up to defer closer()
RunInit ==
  /\ pc = "init"
  /\ \E ok \in BOOLEAN :
       IF ok
       THEN /\ pc' = "open"
            /\ calls' = Append(calls, Call("c.Init", TRUE))
            /\ defers' = Append(defers, "closer")
            /\ UNCHANGED <<exitCode, err>>
       ELSE /\ pc' = "return"
            /\ exitCode' = 1
            /\ err' = "c.Init"
            /\ calls' = Append(calls, Call("c.Init", FALSE))
            /\ UNCHANGED defers
  /\ UNCHANGED <<mounted, ctxCancelled, parsedBuilds, nodes, req, resp>>

\* fp, err := os.Open(c.rootFile) ... defer fp.Close()
RunOpen ==
  /\ pc = "open"
  /\ \E ok \in BOOLEAN :
       IF ok
       THEN /\ pc' = "read"
            /\ calls' = Append(calls, Call("os.Open", TRUE))
            /\ defers' = Append(defers, "fp.Close")
            /\ UNCHANGED <<exitCode, err>>
       ELSE /\ pc' = "return"
            /\ exitCode' = 1
            /\ err' = "os.Open"
            /\ calls' = Append(calls, Call("os.Open", FALSE))
            /\ UNCHANGED defers
  /\ UNCHANGED <<mounted, ctxCancelled, parsedBuilds, nodes, req, resp>>

\* fpContents, err := io.ReadAll(fp)
RunReadAll ==
  /\ pc = "read"
  /\ \E ok \in BOOLEAN :
       IF ok
       THEN /\ pc' = "parse"
            /\ calls' = Append(calls, Call("io.ReadAll", TRUE))
            /\ UNCHANGED <<exitCode, err>>
       ELSE /\ pc' = "return"
            /\ exitCode' = 1
            /\ err' = "io.ReadAll"
            /\ calls' = Append(calls, Call("io.ReadAll", FALSE))
  /\ UNCHANGED <<defers, mounted, ctxCancelled, parsedBuilds, nodes, req, resp>>

\* toml.Unmarshal(fpContents, &c.parsedBuilds) ... fmt.Println(c.parsedBuilds)
RunUnmarshal ==
  /\ pc = "parse"
  /\ \/ \E t \in Trees :
          /\ pc' = "mount"
          /\ parsedBuilds' = t
          /\ calls' = Append(calls, Call("toml.Unmarshal", TRUE))
          /\ UNCHANGED <<exitCode, err>>
     \/ /\ pc' = "return"
        /\ exitCode' = 1
        /\ err' = "toml.Unmarshal"
        /\ calls' = Append(calls, Call("toml.Unmarshal", FALSE))
        /\ UNCHANGED parsedBuilds
  /\ UNCHANGED <<defers, mounted, ctxCancelled, nodes, req, resp>>

RunMount_GoOnAfterError ==
  /\ pc = "mount"
  /\ \E ok \in BOOLEAN :
       /\ pc' = "serve0"
       /\ mounted' = ok
       /\ calls' = Append(calls, Call("fuse.Mount", ok))
       /\ defers' = DefersAfterMount(defers)
       /\ UNCHANGED <<exitCode, err>>
  /\ UNCHANGED <<ctxCancelled, parsedBuilds, nodes, req, resp>>

\* conn, err := fuse.Mount(mountpoint, fuse.ReadOnly(), ...) and the two defers
RunMount ==
  /\ pc = "mount"
  /\ \E ok \in BOOLEAN :
       IF ok
       THEN /\ pc' = "serve0"
            /\ mounted' = TRUE
            /\ calls' = Append(calls, Call("fuse.Mount", TRUE))
            /\ defers' = DefersAfterMount(defers)
            /\ UNCHANGED <<exitCode, err>>
       ELSE /\ pc' = "return"
            /\ exitCode' = 1
            /\ err' = "fuse.Mount"
            /\ calls' = Append(calls, Call("fuse.Mount", FALSE))
            /\ UNCHANGED <<defers, mounted>>
  /\ UNCHANGED <<ctxCancelled, parsedBuilds, nodes, req, resp>>

\* fs.ServeContext(ctx, conn, RootEntry{conf: c.rootFile, jobs: c.parsedBuilds})
\* is entered: the serving layer asks the RootEntry for its root node
RunServe ==
  /\ pc = "serve0"
  /\ pc' = "serve"
  /\ calls' = Append(calls, Call("fs.ServeContext", TRUE))
  /\ nodes' = {Root([conf |-> RootFile, jobs |-> parsedBuilds]).node}
  /\ UNCHANGED <<exitCode, err, defers, mounted, ctxCancelled, parsedBuilds, req, resp>>

\* err = fs.ServeContext(...) has returned: if err != nil return 1, else return 0
RunAfterServe ==
  /\ pc = "served"
  /\ pc' = "return"
  /\ exitCode' = ExitAfterServe(err)
  /\ UNCHANGED <<err, defers, calls, mounted, ctxCancelled, parsedBuilds, nodes, req, resp>>

\* the deferred calls run last-registered first, then Run hands back exitCode;
\* the deferred fuse.Unmount releases the mount point
RunReturn ==
  /\ pc = "return"
  /\ pc' = "done"
  /\ calls' = calls \o [i \in 1..Len(defers) |-> Call(Reverse(defers)[i], TRUE)]
  /\ mounted' = IF InSeq("fuse.Unmount", defers) THEN FALSE ELSE mounted
  /\ defers' = <<>>
  /\ UNCHANGED <<exitCode, err, ctxCancelled, parsedBuilds, nodes, req, resp>>

\* --------------------------------------------------- cancellation and serve
\* helper.WithInterrupt: an interrupt signal cancels ctx; the handler is in
\* place from line 166 until the deferred closer runs
Interrupt ==
  /\ pc \in {"open", "read", "parse", "mount", "serve0", "serve", "served"}
  /\ ~ctxCancelled
  /\ ctxCancelled' = TRUE
  /\ calls' = Append(calls, Call("interrupt", TRUE))
  /\ UNCHANGED <<pc, exitCode, err, defers, mounted, parsedBuilds, nodes, req, resp>>

\* fs.ServeContext returns nil once ctx is done
ServeCancelled ==
  /\ pc = "serve"
  /\ ctxCancelled
  /\ pc' = "served"
  /\ err' = "nil"
  /\ calls' = Append(calls, Call("serve returned", TRUE))
  /\ UNCHANGED <<exitCode, defers, mounted, ctxCancelled, parsedBuilds, nodes, req, resp>>

\* fs.ServeContext returns nil when the OS ends the session
ServeTerminated ==
  /\ pc = "serve"
  /\ ~ctxCancelled
  /\ pc' = "served"
  /\ err' = "nil"
  /\ calls' = Append(calls, Call("serve returned", TRUE))
  /\ UNCHANGED <<exitCode, defers, mounted, ctxCancelled, parsedBuilds, nodes, req, resp>>

\* fs.ServeContext returns an unrecoverable serving error
ServeError ==
  /\ pc = "serve"
  /\ ~ctxCancelled
  /\ pc' = "served"
  /\ err' = "fs.ServeContext"
  /\ calls' = Append(calls, Call("serve returned", FALSE))
  /\ UNCHANGED <<exitCode, defers, mounted, ctxCancelled, parsedBuilds, nodes, req, resp>>

\* ------------------------------------------- one filesystem request on node n
DoLookup(n, name) ==
  LET r == NodeLookup(n, name) IN
  /\ req' = [NoReq EXCEPT !.op = "Lookup", !.node = n, !.name = name]
  /\ resp' = [NoResp EXCEPT !.op = "Lookup", !.err = r.err, !.node = r.node]
  /\ nodes' = IF r.err = "nil" THEN nodes \cup {r.node} ELSE nodes

DoReadDirAll(n) ==
  \E r \in NodeReadDirAll(n) :
    /\ req' = [NoReq EXCEPT !.op = "ReadDirAll", !.node = n]
    /\ resp' = [NoResp EXCEPT !.op = "ReadDirAll", !.err = r.err, !.dirents = r.dirents]
    /\ nodes' = nodes

DoAttr(n) ==
  LET r == NodeAttr(n, ZeroAttr) IN
  /\ req' = [NoReq EXCEPT !.op = "Attr", !.node = n]
  /\ resp' = [NoResp EXCEPT !.op = "Attr", !.err = r.err, !.attr = r.attr]
  /\ nodes' = nodes

DoRead(n, offset, size) ==
  LET r == RenderFS_Read(n, offset, size) IN
  /\ req' = [NoReq EXCEPT !.op = "Read", !.node = n, !.offset = offset, !.size = size]
  /\ resp' = [NoResp EXCEPT !.op = "Read", !.err = r.err, !.data = r.Data]
  /\ nodes' = nodes

\* The serve loop dispatches a request to a node it holds, while ctx is live.
\* It holds the root and what Lookup returned: Lookup never returns a RenderFS,
\* so no Read request can be addressed to one here (see NodeSpec for Read).
Serving == pc = "serve" /\ ~ctxCancelled

ServeLookup == Serving /\ (\E n \in nodes, name \in LookupNames : DoLookup(n, name)) /\ UNCHANGED runVars

ServeReadDirAll == Serving /\ (\E n \in nodes : HasReadDirAll(n) /\ DoReadDirAll(n)) /\ UNCHANGED runVars

ServeAttr == Serving /\ (\E n \in nodes : DoAttr(n)) /\ UNCHANGED runVars

Next ==
  \/ RunInit
  \/ RunOpen
  \/ RunReadAll
  \/ RunUnmarshal
  \/ RunMount
  \/ RunServe
  \/ RunAfterServe
  \/ RunReturn
  \/ Interrupt
  \/ ServeCancelled
  \/ ServeTerminated
  \/ ServeError
  \/ ServeLookup
  \/ ServeReadDirAll
  \/ ServeAttr

Spec == Init /\ [][Next]_vars

\* Run is a sequential program and keeps executing; the serve loop notices a
\* cancelled context
LiveSpec ==
  /\ Spec
  /\ WF_vars(RunInit) /\ WF_vars(RunOpen) /\ WF_vars(RunReadAll) /\ WF_vars(RunUnmarshal)
  /\ WF_vars(RunMount) /\ WF_vars(RunServe) /\ WF_vars(RunAfterServe) /\ WF_vars(RunReturn)
  /\ WF_vars(ServeCancelled)

\* ----------------------------------------- the handlers on an arbitrary node
Nodes == RootDir \cup JobDir \cup RenderFS

NodeInit ==
  /\ pc = "node"
  /\ exitCode = 0
  /\ err = "nil"
  /\ defers = <<>>
  /\ calls = <<>>
  /\ mounted = FALSE
  /\ ctxCancelled = FALSE
  /\ parsedBuilds = nilMap
  /\ nodes \in {{n} : n \in Nodes}
  /\ req = NoReq
  /\ resp = NoResp

CallLookup == pc = "node" /\ (\E n \in nodes, name \in LookupNames : DoLookup(n, name)) /\ UNCHANGED runVars

CallReadDirAll == pc = "node" /\ (\E n \in nodes : HasReadDirAll(n) /\ DoReadDirAll(n)) /\ UNCHANGED runVars

CallAttr == pc = "node" /\ (\E n \in nodes : DoAttr(n)) /\ UNCHANGED runVars

CallRead == pc = "node" /\ (\E n \in nodes, offset \in 0..MaxOffset, size \in 0..MaxSize : HasRead(n) /\ DoRead(n, offset, size)) /\ UNCHANGED runVars

NodeNext ==
  \/ CallLookup
  \/ CallReadDirAll
  \/ CallAttr
  \/ CallRead

NodeSpec == NodeInit /\ [][NodeNext]_vars

TypeOK ==
  /\ pc \in {"init", "open", "read", "parse", "mount", "serve0", "serve", "served", "return", "done", "node"}
  /\ exitCode \in {0, 1}
  /\ mounted \in BOOLEAN
  /\ ctxCancelled \in BOOLEAN

\* ------------------------------------------------------------- properties
Before(i, fn, ok) == \E j \in 1..(i - 1) : calls[j] = Call(fn, ok)
MountSucceeded == Succeeded("fuse.Mount") # {}
ConfigFailed == Failed("os.Open") \cup Failed("io.ReadAll") \cup Failed("toml.Unmarshal") # {}
DirentNames(ds) == {ds[i].Name : i \in 1..Len(ds)}
Min(a, b) == IF a < b THEN a ELSE b

\* the mapping a directory node lists and looks names up in
Mapping(n) == IF n.kind = "RootDir" THEN n.jobs ELSE n.job.files

\* C1: once fuse.Mount has succeeded, fuse.Unmount is called exactly once
\* before Run returns, after the serve loop has returned, however it returned
\* (nil or an error); Run never ends with the mount point still bound, and
\* never unmounts twice.
C1_UnmountedExactlyOnce ==
  /\ Cardinality(Made("fuse.Unmount")) <= 1
  /\ (pc = "done" /\ MountSucceeded) =>
       /\ Cardinality(Made("fuse.Unmount")) = 1
       /\ \A i \in Made("fuse.Unmount") : Before(i, "serve returned", TRUE) \/ Before(i, "serve returned", FALSE)
       /\ ~mounted

\* Run has returned after a serve error, and the mount point is released.
C1_Witness == pc = "done" /\ MountSucceeded /\ Failed("serve returned") # {} /\ Made("fuse.Unmount") # {} /\ ~mounted

\* C2: an interrupt that arrives while the session is mounted and serving
\* leads to the serve loop having stopped, the mount point released and Run
\* returned with exit code 0.
C2_InterruptLeadsToCleanExit ==
  (pc = "serve" /\ mounted /\ ctxCancelled) ~> (pc = "done" /\ exitCode = 0 /\ ~mounted /\ Made("fuse.Unmount") # {})

\* Run returned 0 after an interrupt that came between the entry and the
\* return of the serve loop, with requests served before it.
C2_Witness ==
  /\ pc = "done" /\ exitCode = 0 /\ ~mounted /\ resp.op # "none"
  /\ \E i \in Made("interrupt") : Before(i, "fs.ServeContext", TRUE) /\ \E k \in Succeeded("serve returned") : i < k

\* C3: the serve loop starts only after toml.Unmarshal and fuse.Mount have
\* both succeeded, and fuse.Unmount is called only after a successful mount;
\* a failure to open, read or parse the document ends Run with no mount
\* attempt; a failed mount ends Run never mounted, with no serve and no unmount.
C3_ServeOnlyAfterLoadAndMount ==
  /\ \A i \in Made("fs.ServeContext") : Before(i, "toml.Unmarshal", TRUE) /\ Before(i, "fuse.Mount", TRUE)
  /\ pc \in {"serve", "served"} => Made("fs.ServeContext") # {}
  /\ nodes # {} => Made("fs.ServeContext") # {}
  /\ \A i \in Made("fuse.Unmount") : Before(i, "fuse.Mount", TRUE)
  /\ mounted => MountSucceeded
  /\ ConfigFailed => pc \in {"return", "done"} /\ Made("fuse.Mount") = {} /\ Made("fs.ServeContext") = {} /\ ~mounted
  /\ Failed("fuse.Mount") # {} => pc \in {"return", "done"} /\ ~MountSucceeded /\ ~mounted /\ Made("fs.ServeContext") = {} /\ Made("fuse.Unmount") = {}

\* Run has returned after a failed mount.
C3_Witness == pc = "done" /\ Failed("fuse.Mount") # {} /\ Succeeded("toml.Unmarshal") # {}

\* C4: Run returns 1 whenever the document cannot be opened, read or parsed,
\* the mount fails or the serve loop returns an error; it returns 0 exactly
\* when the mount succeeded and the serve loop returned without error.
C4_ExitCode ==
  pc = "done" =>
    /\ ConfigFailed => exitCode = 1
    /\ Failed("fuse.Mount") # {} => exitCode = 1
    /\ Failed("serve returned") # {} => exitCode = 1
    /\ exitCode = 0 <=> (MountSucceeded /\ Succeeded("serve returned") # {})
    /\ exitCode \in {0, 1}

\* Run has returned 0 after a successful mount and a clean serve.
C4_Witness == pc = "done" /\ exitCode = 0 /\ MountSucceeded /\ Succeeded("serve returned") # {}

\* C5: looking up a group g of the tree on the root yields the group's node,
\* and looking up a file f of g on that node yields a File node whose
\* Read(0, len(c)) returns exactly the content c of g/f.
C5_ChainedLookupReadsContent ==
  /\ (resp.op = "Lookup" /\ req.node.kind = "RootDir" /\ req.name \in Keys(req.node.jobs)) =>
       (resp.err = "nil" /\ resp.node = [kind |-> "JobDir", job |-> req.node.jobs[req.name]])
  /\ (resp.op = "Lookup" /\ req.node.kind = "JobDir" /\ req.name \in Keys(req.node.job.files)) =>
       /\ resp.err = "nil"
       /\ resp.node.kind = "RenderFS"
       /\ LET c == req.node.job.files[req.name] IN RenderFS_Read(resp.node, 0, Len(c)) = [Data |-> c, err |-> "nil"]

\* C6: a read of (offset, size) on a File node with content c of length L
\* returns nothing when offset >= L and c[offset : min(offset+size, L)]
\* otherwise, never more than size bytes, and no error.
C6_ReadReturnsRequestedRange ==
  (resp.op = "Read" /\ req.node.kind = "RenderFS") =>
    LET c == req.node.Content
        L == Len(c)
    IN /\ resp.err = "nil"
       /\ Len(resp.data) <= req.size
       /\ resp.data = IF req.offset >= L THEN <<>> ELSE SubSeq(c, req.offset + 1, Min(req.offset + req.size, L))

\* C7: ReadDirAll on a directory node returns, without error, exactly one
\* entry per key of the node's mapping (no duplicate, none missing, none
\* extra), tagged DT_Dir in the root listing and DT_File in a group listing;
\* an empty mapping gives an empty listing.
C7_ListingMatchesMapping ==
  resp.op = "ReadDirAll" =>
    LET m == Mapping(req.node)
        ds == resp.dirents
    IN /\ resp.err = "nil"
       /\ DirentNames(ds) = Keys(m)
       /\ Len(ds) = Cardinality(Keys(m))
       /\ \A i \in 1..Len(ds) : ds[i].Type = (IF req.node.kind = "RootDir" THEN "DT_Dir" ELSE "DT_File")
       /\ Keys(m) = {} => ds = <<>>

\* the root listing of a tree with two groups
C7_Witness == resp.op = "ReadDirAll" /\ req.node.kind = "RootDir" /\ Cardinality(Keys(req.node.jobs)) = 2 /\ Len(resp.dirents) = 2

\* C8: a Lookup of a name that is not a key of the node's mapping fails with
\* ENOENT and returns no node, and the request that failed leaves the session
\* as it was: still mounted and serving, the tree and the nodes unchanged.
C8_LookupMissLocal ==
  /\ [](resp.op = "Lookup" /\ req.name \notin Keys(Mapping(req.node)) => resp.err = "ENOENT" /\ resp.node = nilNode)
  /\ [][(resp'.op = "Lookup" /\ resp'.err = "ENOENT" /\ <<req, resp>>' # <<req, resp>>) =>
          (pc = "serve" /\ pc' = "serve" /\ mounted /\ mounted' /\ parsedBuilds' = parsedBuilds /\ nodes' = nodes /\ UNCHANGED <<exitCode, err, defers, calls, ctxCancelled>>)]_vars

\* a lookup of an absent group name on the root has failed, mid-session
C8_Witness == pc = "serve" /\ mounted /\ resp.op = "Lookup" /\ req.node.kind = "RootDir" /\ req.name \notin Keys(req.node.jobs) /\ resp.err = "ENOENT" /\ Keys(req.node.jobs) # {}

\* C9: Attr on a File node reports a regular-file mode with read permission
\* only and a size equal to the byte length of the content.
C9_FileAttr ==
  (resp.op = "Attr" /\ req.node.kind = "RenderFS") =>
    /\ resp.err = "nil"
    /\ IsRegular(resp.attr.Mode)
    /\ \E k \in ReadBits : Bit(resp.attr.Mode.perm, k)
    /\ \A k \in WriteBits \cup TraverseBits : ~Bit(resp.attr.Mode.perm, k)
    /\ resp.attr.Size = Len(req.node.Content)

\* C10 as stated: Attr on a directory node reports a directory mode that
\* grants read and traverse and has no write bit for owner, group or others.
C10_DirAttrNoWriteBit ==
  (resp.op = "Attr" /\ req.node.kind \in {"RootDir", "JobDir"}) =>
    /\ resp.err = "nil"
    /\ IsDir(resp.attr.Mode)
    /\ \A k \in ReadBits \cup TraverseBits : Bit(resp.attr.Mode.perm, k)
    /\ \A k \in WriteBits : ~Bit(resp.attr.Mode.perm, k)

\* C10 amended: Attr on a directory node (RootDir, JobDir) reports a
\* directory mode with permission bits 0o755: read and traverse for owner,
\* group and others, no write bit for group or others, the owner's write bit set.
C10_DirAttr0755 ==
  (resp.op = "Attr" /\ req.node.kind \in {"RootDir", "JobDir"}) =>
    /\ resp.err = "nil"
    /\ IsDir(resp.attr.Mode)
    /\ resp.attr.Size = 0
    /\ \A k \in ReadBits \cup TraverseBits : Bit(resp.attr.Mode.perm, k)
    /\ \A k \in WriteBits \ {PermBit.OwnerW} : ~Bit(resp.attr.Mode.perm, k)
    /\ Bit(resp.attr.Mode.perm, PermBit.OwnerW)

\* Attr has answered for the root directory
C10_Witness == resp.op = "Attr" /\ req.node.kind = "RootDir" /\ IsDir(resp.attr.Mode)

====
